---- MODULE Spec2Model ----
(***************************************************************************)
(* runproc: a minimal OCI runtime.  One container identifier, its          *)
(* directory under the state root (state.json, state.json.tmp, start),     *)
(* the controller invocations of the CLI (create, start, state, kill,      *)
(* delete, run) and the init processes they spawn.                         *)
(*                                                                         *)
(* Every controller step is one system call (or one call that touches      *)
(* shared state) of the Go source; the init process and the target         *)
(* program run concurrently with the controllers.                          *)
(***************************************************************************)
EXTENDS Integers, Sequences, FiniteSets, TLC

----------------------------------------------------------------------------
(* Bounds of the model *)

NumCtl == 2
\* concurrent controller invocations (slots)

MaxPid == 2
\* processes spawned over a behaviour

MaxClock == 4
\* readings of time.Now() over a behaviour

MaxCmds == 3
\* invocations over a behaviour in which invocations overlap

MaxLen == 3
\* characters of a signal argument that is drawn from the alphabet

Ctl == 1..NumCtl
Pids == 1..MaxPid
\* the exit statuses of the target program
ExitCodes == {0, 1}

----------------------------------------------------------------------------
(* Program constants *)

SIGHUP == 1
SIGINT == 2
SIGKILL == 9
SIGTERM == 15

DeletePolls == 20
\* cmdDelete: for i := 0; i < 20; i++

NSIG == 64
\* syscall.Kill: the largest signal number the kernel accepts

TheId == "c1"

----------------------------------------------------------------------------
(* state.ContainerState and its JSON document *)

Created == "created"
Running == "running"
Stopped == "stopped"

\* A nil pointer is <<>>, a pointer to v is <<v>>.
NilPtr == <<>>
Ptr(v) == <<v>>

\* Mutant: the literal without Pid.
ContainerStateNoPid(id, bundle, pid) ==
    [ID |-> id, Bundle |-> bundle, Pid |-> 0, Status |-> "",
     CreatedAt |-> 0, StartedAt |-> NilPtr, ExitedAt |-> NilPtr, ExitCode |-> NilPtr]

\* &state.ContainerState{ID: id, Bundle: bundle, Pid: pid}: the other fields zero.
ContainerState(id, bundle, pid) ==
    [ID |-> id, Bundle |-> bundle, Pid |-> pid, Status |-> "",
     CreatedAt |-> 0, StartedAt |-> NilPtr, ExitedAt |-> NilPtr, ExitCode |-> NilPtr]

ZeroState == ContainerState("", "", 0)

\* json.Encoder.Encode(st): the omitempty pointer fields are left out when nil.
OptField(name, ptr) == IF ptr = NilPtr THEN <<>> ELSE name :> ptr[1]

Encode(st) ==
    [id |-> st.ID, bundle |-> st.Bundle, pid |-> st.Pid, status |-> st.Status,
     createdAt |-> st.CreatedAt]
        @@ OptField("startedAt", st.StartedAt)
        @@ OptField("exitedAt", st.ExitedAt)
        @@ OptField("exitCode", st.ExitCode)

\* json.Unmarshal(b, &st): a key that is absent leaves the field nil.
OptPtr(doc, name) == IF name \in DOMAIN doc THEN Ptr(doc[name]) ELSE NilPtr

Decode(doc) ==
    [ID |-> doc.id, Bundle |-> doc.bundle, Pid |-> doc.pid, Status |-> doc.status,
     CreatedAt |-> doc.createdAt,
     StartedAt |-> OptPtr(doc, "startedAt"),
     ExitedAt |-> OptPtr(doc, "exitedAt"),
     ExitCode |-> OptPtr(doc, "exitCode")]

\* A file: absent, empty (created or truncated, nothing written yet) or a document.
Absent == [kind |-> "absent"]
Empty == [kind |-> "empty"]
Doc(d) == [kind |-> "doc", doc |-> d]

----------------------------------------------------------------------------
(* oci.LoadSpec *)

Bundles == {"ok", "noargs", "bad"}

PidFiles == {"", "pidfile", "nodir/pidfile"}
\* --pid-file: not given, a writable path, or a path in a directory that does
\* not exist

\* os.WriteFile(path, ...) returns an error.
WriteFileFails(path) == path = "nodir/pidfile"

----------------------------------------------------------------------------
(* Signals: the CLI's and cmdKill's resolution of the signal argument.  A   *)
(* string is a sequence of one-character strings.                          *)

HasPrefix(s, pre) == Len(s) >= Len(pre) /\ SubSeq(s, 1, Len(pre)) = pre

Digits == {"0", "1", "2", "3", "4", "5", "6", "7", "8", "9"}

DigitVal(ch) ==
    CASE ch = "0" -> 0 [] ch = "1" -> 1 [] ch = "2" -> 2 [] ch = "3" -> 3
      [] ch = "4" -> 4 [] ch = "5" -> 5 [] ch = "6" -> 6 [] ch = "7" -> 7
      [] ch = "8" -> 8 [] ch = "9" -> 9

RECURSIVE DecVal(_)
DecVal(s) == IF s = <<>> THEN 0 ELSE 10 * DecVal(SubSeq(s, 1, Len(s) - 1)) + DigitVal(s[Len(s)])

\* strconv.Atoi: an optional sign and at least one digit, nothing else.
Atoi(s) ==
    LET signed == s # <<>> /\ s[1] \in {"+", "-"}
        body == IF signed THEN Tail(s) ELSE s
    IN  IF body # <<>> /\ \A k \in 1..Len(body) : body[k] \in Digits
        THEN [ok |-> TRUE, n |-> IF signed /\ s[1] = "-" THEN 0 - DecVal(body) ELSE DecVal(body)]
        ELSE [ok |-> FALSE, n |-> 0]

Str_SIG == <<"S", "I", "G">>
Str_SIGTERM == <<"S", "I", "G", "T", "E", "R", "M">>
Str_SIGKILL == <<"S", "I", "G", "K", "I", "L", "L">>
Str_SIGINT == <<"S", "I", "G", "I", "N", "T">>
Str_SIGHUP == <<"S", "I", "G", "H", "U", "P">>

\* Mutant: only the numbers are resolved, every name is the default.
ResolveSignalNoNames(signal) ==
    IF signal = <<>> THEN SIGTERM
    ELSE IF HasPrefix(signal, Str_SIG) THEN SIGTERM
    ELSE IF Atoi(signal).ok THEN Atoi(signal).n ELSE SIGTERM

ResolveSignal(signal) ==
    IF signal = <<>> THEN SIGTERM
    ELSE IF HasPrefix(signal, Str_SIG)
    THEN CASE signal = Str_SIGTERM -> SIGTERM
           [] signal = Str_SIGKILL -> SIGKILL
           [] signal = Str_SIGINT -> SIGINT
           [] signal = Str_SIGHUP -> SIGHUP
           [] OTHER -> SIGTERM
    ELSE IF Atoi(signal).ok THEN Atoi(signal).n ELSE SIGTERM

\* isAllDigits: non-empty and only ASCII digits.
isAllDigits(s) == s # <<>> /\ \A k \in 1..Len(s) : s[k] \in Digits

\* strings.TrimPrefix(s, "-")
TrimDash(s) == IF s # <<>> /\ s[1] = "-" THEN Tail(s) ELSE s

\* run(), case "kill", for `kill <id> <arg>`: the signal string that cmdKill
\* gets.  preprocessRuncCompat keeps an argument that does not start with "-"
\* and one that is "-" followed by digits, and drops any other one as an
\* unknown flag (then the command is `kill <id>` and the signal string is
\* empty); the kept argument loses one leading "-".
KillSignal(arg) ==
    IF HasPrefix(arg, <<"-">>) /\ ~(Len(arg) > 1 /\ isAllDigits(TrimDash(arg)))
    THEN <<>>
    ELSE TrimDash(arg)

\* The signal arguments the model invokes kill with.
SignalArgs == {<<>>, Str_SIGKILL, <<"0">>}

\* The signal arguments of the kill specification: names, near misses, and
\* every string of up to MaxLen characters of the alphabet.
SigAlphabet == {"-", "+", "0", "1", "5", "9", "S", "x"}

NamedArgs ==
    {Str_SIGTERM, Str_SIGKILL, Str_SIGINT, Str_SIGHUP,
     <<"S", "I", "G">>, <<"S", "I", "G", "K", "I", "L">>,
     <<"S", "I", "G", "S", "T", "O", "P">>,
     <<"s", "i", "g", "k", "i", "l", "l">>, <<"K", "I", "L", "L">>,
     <<"T", "E", "R", "M">>, <<"-", "S", "I", "G", "K", "I", "L", "L">>,
     <<"-", "1", "5">>, <<"0", "0", "9">>}

KillArgs == NamedArgs \cup UNION {[1..k -> SigAlphabet] : k \in 0..MaxLen}

\* syscall.Kill(pid, sig): the kernel rejects a signal number outside 0..NSIG.
ValidSignal(sig) == sig \in 0..NSIG

\* Whether a delivered signal ends the process: signal 0 only probes; SIGKILL
\* and, by default, SIGHUP, SIGINT and SIGTERM end it; for any other signal it
\* depends on the signal and on the program.
SignalOutcomes(sig) ==
    IF sig = 0 THEN {FALSE}
    ELSE IF sig \in {SIGHUP, SIGINT, SIGKILL, SIGTERM} THEN {TRUE}
    ELSE {TRUE, FALSE}

----------------------------------------------------------------------------
(* Host mode *)

\* The zero oci.Process.
NoProcess == [Args |-> <<>>, Env |-> <<>>]

UpperCase == <<"A", "B", "C", "D", "E", "F", "G", "H", "I", "J", "K", "L", "M",
               "N", "O", "P", "Q", "R", "S", "T", "U", "V", "W", "X", "Y", "Z">>

LowerCase == <<"a", "b", "c", "d", "e", "f", "g", "h", "i", "j", "k", "l", "m",
               "n", "o", "p", "q", "r", "s", "t", "u", "v", "w", "x", "y", "z">>

IsUpper(ch) == \E k \in 1..Len(UpperCase) : UpperCase[k] = ch

ToLower(ch) ==
    IF IsUpper(ch)
    THEN LowerCase[CHOOSE k \in 1..Len(UpperCase) : UpperCase[k] = ch]
    ELSE ch

\* strings.EqualFold(s, t), on ASCII strings.
EqualFold(s, t) ==
    Len(s) = Len(t) /\ \A k \in 1..Len(s) : ToLower(s[k]) = ToLower(t[k])

\* v == "1" || strings.EqualFold(v, "true") || strings.EqualFold(v, "yes")
Truthy(v) ==
    \/ v = <<"1">>
    \/ EqualFold(v, <<"t", "r", "u", "e">>)
    \/ EqualFold(v, <<"y", "e", "s">>)

\* "RUNPROC_HOST="
HostPrefix == <<"R", "U", "N", "P", "R", "O", "C", "_", "H", "O", "S", "T", "=">>

\* strings.TrimPrefix(s, pre)
TrimPrefix(s, pre) == IF HasPrefix(s, pre) THEN SubSeq(s, Len(pre) + 1, Len(s)) ELSE s

\* The key of the host-mode annotation.
HostKey == "runproc.host"

\* Mutant: the annotation, when present, decides alone.
hostModeAnnotationWins(getenv, env, annotations) ==
    IF HostKey \in DOMAIN annotations
    THEN Truthy(annotations[HostKey])
    ELSE Truthy(getenv)
         \/ \E k \in 1..Len(env) :
               HasPrefix(env[k], HostPrefix) /\ Truthy(TrimPrefix(env[k], HostPrefix))

\* cmdInit's hostMode after the three checks: getenv is
\* os.Getenv("RUNPROC_HOST") ("" when unset), env is p.Env, annotations is
\* spec.Annotations (a nil map has no key).
hostMode(getenv, env, annotations) ==
    LET fromRuntime == Truthy(getenv)
        fromProcess ==
            IF ~fromRuntime
            THEN \E k \in 1..Len(env) :
                    HasPrefix(env[k], HostPrefix) /\ Truthy(TrimPrefix(env[k], HostPrefix))
            ELSE fromRuntime
    IN  IF HostKey \in DOMAIN annotations /\ Truthy(annotations[HostKey])
        THEN TRUE
        ELSE fromProcess

\* !hostMode && spec.Root != nil && spec.Root.Path != "" && os.Geteuid() == 0
Chroots(mode, root, euid) ==
    ~mode /\ root # NilPtr /\ root[1].Path # "" /\ euid = 0

\* The values a host-mode setting takes in the model.
HostValues ==
    {<<>>, <<"0">>, <<"1">>, <<"n", "o">>, <<"t", "r", "u">>,
     <<"t", "r", "u", "e">>, <<"T", "r", "u", "e">>, <<"T", "R", "U", "E">>,
     <<"y", "e", "s">>, <<"Y", "E", "S">>, <<"y", "E", "s">>}

\* The entries of a declared environment: RUNPROC_HOST with a value, the bare
\* name, another variable.
EnvEntries ==
    {HostPrefix \o v : v \in {<<"1">>, <<"0">>, <<"T", "R", "U", "E">>, <<"n", "o">>}}
        \cup {<<"R", "U", "N", "P", "R", "O", "C", "_", "H", "O", "S", "T">>,
              <<"A", "=", "1">>}

\* The longest declared environment.
MaxEnv == 2

ProcessEnvs == UNION {[1..n -> EnvEntries] : n \in 0..MaxEnv}

\* annotations: none, another key only, runproc.host with a value.
AnnotationMaps ==
    {<<>>, [k \in {"other"} |-> <<"1">>]} \cup {[k \in {HostKey} |-> v] : v \in HostValues}

\* root: absent, an empty path, a path.
Roots == {NilPtr, Ptr([Path |-> ""]), Ptr([Path |-> "rootfs"])}

\* os.Geteuid(): the superuser or another user.
Euids == {0, 1000}

\* What an invocation finds around it: RUNPROC_HOST in the runtime's
\* environment, its effective uid, and the bundle's process.env, root and
\* annotations.
SysSettings ==
    [RUNPROC_HOST : HostValues, Euid : Euids, ProcessEnv : ProcessEnvs,
     Root : Roots, Annotations : AnnotationMaps]

\* The setting of the lifecycle specifications: no host-mode signal, a root
\* file system, the superuser.
DefaultSys ==
    [RUNPROC_HOST |-> <<>>, Euid |-> 0, ProcessEnv |-> <<>>,
     Root |-> Ptr([Path |-> "rootfs"]), Annotations |-> <<>>]

----------------------------------------------------------------------------
(* State *)

VARIABLES
    dir,        \* the container's directory <stateRoot>/<id> exists
    stateFile,  \* <dir>/state.json
    tmpFile,    \* <dir>/state.json.tmp
    marker,     \* <dir>/start exists
    pidFile,    \* the pid written to the --pid-file path, 0 when never written
    proc,       \* the OS process table: the init processes spawned by create
    clock,      \* the last reading of time.Now()
    ctl,        \* the controller invocations: position and local variables
    pre,        \* history: what each invocation found when it was issued
    hist,       \* history: which commands have returned
    sys         \* the environment, the uid and the bundle settings of host mode

vars == <<dir, stateFile, tmpFile, marker, pidFile, proc, clock, ctl, pre, hist, sys>>

fsVars == <<dir, stateFile, tmpFile, marker>>

\* Mutant: LoadSpec returns no error for any bundle.
LoadSpecLenient(bundle) ==
    [err |-> FALSE,
     Process |-> [Args |-> IF bundle = "ok" THEN <<"/bin/sh">> ELSE <<>>,
                  Env |-> sys.ProcessEnv],
     Root |-> sys.Root, Annotations |-> sys.Annotations]

\* "ok": a config.json with a process that has arguments; "noargs": a config.json
\* whose process has an empty args list; "bad": no readable config.json.
\* process.env, root and annotations are what the bundle declares.
LoadSpec(bundle) ==
    IF bundle = "bad"
    THEN [err |-> TRUE, Process |-> NoProcess, Root |-> NilPtr, Annotations |-> <<>>]
    ELSE [err |-> FALSE,
          Process |-> [Args |-> IF bundle = "ok" THEN <<"/bin/sh">> ELSE <<>>,
                       Env |-> sys.ProcessEnv],
          Root |-> sys.Root, Annotations |-> sys.Annotations]

Commands == {"create", "start", "state", "kill", "delete", "run"}

\* The commands that are issued while other invocations run: `run` is create,
\* start and waitProcess in one process.
ParCommands == {"create", "start", "state", "kill", "delete"}

NoWait == [exited |-> FALSE, code |-> 0]

\* A pid that was never used.
\* pipe, wire: the read end of create's pipe and the message in it; p: the
\* oci.Process cmdInit decoded; ws: the wait status of a process that ended.
\* started, returned (history): since the process was spawned, a start has
\* written the marker, a start invocation has returned success; recorded
\* (history): the pid that create persisted for this process; abandoned
\* (history): the cmdCreate that spawned the process has returned an error;
\* chroot: the process has changed its root directory.
NoProc == [phase |-> "none", parent |-> 0, pipe |-> "none",
           wire |-> NoProcess, p |-> NoProcess, chroot |-> FALSE,
           ws |-> NoWait,
           started |-> FALSE, returned |-> FALSE, recorded |-> 0,
           abandoned |-> FALSE]

IdleCtl ==
    [pc |-> "idle", cmd |-> "", bundle |-> "", pidFile |-> "", signal |-> <<>>,
     st |-> ZeroState, child |-> 0, fd |-> "none", ret |-> 0, err |-> "",
     out |-> <<>>, cont |-> "", i |-> 0, sig |-> 0,
     failed |-> FALSE, code |-> 0, reaped |-> 0, solo |-> FALSE]

NoPre == [stateFile |-> Absent, dir |-> FALSE, marker |-> FALSE, alive |-> FALSE]

Init ==
    /\ sys = DefaultSys
    /\ dir = FALSE
    /\ stateFile = Absent
    /\ tmpFile = Absent
    /\ marker = FALSE
    /\ pidFile = 0
    /\ proc = [p \in Pids |-> NoProc]
    /\ clock = 0
    /\ ctl = [c \in Ctl |-> IdleCtl]
    /\ pre = [c \in Ctl |-> NoPre]
    /\ hist = [created |-> 0, issued |-> 0]

----------------------------------------------------------------------------
(* Processes and the file system *)

LivePhases == {"decode", "poll", "load", "exec", "target"}

\* syscall.Kill(pid, 0) succeeds for a process that exists, a zombie included.
ProcExists(pid) == pid \in Pids /\ proc[pid].phase \in LivePhases \cup {"zombie"}

pidAlive(pid) == IF pid <= 0 THEN FALSE ELSE ProcExists(pid)

\* ws.ExitStatus(): -1 unless the process exited normally.
ExitStatus(ws) == IF ws.exited THEN ws.code ELSE 0 - 1

\* The process table after process pid has terminated with wait status ws.
Terminate(table, pid, ws) ==
    [table EXCEPT ![pid] =
        [NoProc EXCEPT !.phase = "zombie", !.parent = table[pid].parent, !.ws = ws]]

\* The process table after signal sig ended process pid, if it had not ended yet
\* (signal 0 only probes).
Deliver(table, pid, sig) ==
    IF sig # 0 /\ table[pid].phase \in LivePhases
    THEN Terminate(table, pid, [exited |-> FALSE, code |-> sig])
    ELSE table

\* state.Exists: os.Stat(pathFor(stateRoot, id)) succeeds.
Exists == stateFile.kind # "absent"

\* state.Load: os.ReadFile, then json.Unmarshal.
Load ==
    IF stateFile.kind = "absent" THEN [err |-> "notexist", st |-> ZeroState]
    ELSE IF stateFile.kind = "empty" THEN [err |-> "unmarshal", st |-> ZeroState]
    ELSE [err |-> "", st |-> Decode(stateFile.doc)]

\* The descriptors of the other invocations after the file at a path was replaced
\* or removed: a descriptor keeps its file, which no longer has that path.
Detach(table, from, to) ==
    [c \in Ctl |-> IF table[c].fd = from THEN [table[c] EXCEPT !.fd = to] ELSE table[c]]

\* History: cmdStart has written the marker, cmdStart has returned nil.
NoteStarted(table) ==
    [p \in Pids |-> [table[p] EXCEPT !.started = @ \/ table[p].phase \in LivePhases]]

NoteReturned(table) ==
    [p \in Pids |-> [table[p] EXCEPT !.returned = @ \/ table[p].phase \in LivePhases]]

\* History: the cmdCreate that spawned pid returns an error.
NoteAbandoned(table, pid) ==
    [table EXCEPT ![pid] = [@ EXCEPT !.abandoned = @ \/ table[pid].phase \in LivePhases]]

\* The positions inside state.Create, state.Save and state.Delete: the calls
\* that change the container's directory.
CreateLabels == {"c_mkdir", "c_stat", "c_open", "c_write"}

SaveLabels == {"sv_open", "sv_write", "sv_rename"}

DeleteLabels == {"d_delete"}

MutatingLabels == CreateLabels \cup SaveLabels \cup DeleteLabels

\* History: invocation c, which goes on to position pc, is inside state.Save
\* and no other invocation has been inside Create, Save or Delete since c
\* entered it.
Solo(c, pc) ==
    /\ pc \in SaveLabels
    /\ IF ctl[c].pc \in SaveLabels THEN ctl[c].solo
       ELSE \A d \in Ctl \ {c} : ctl[d].pc \notin MutatingLabels

\* Invocation c goes on with the changes upd to its position and variables.
Go(c, upd) ==
    LET new == upd @@ ctl[c] IN
    ctl' = [d \in Ctl |->
              IF d = c THEN [new EXCEPT !.solo = Solo(c, new.pc)]
              ELSE [ctl[d] EXCEPT !.solo = @ /\ new.pc \notin MutatingLabels]]

At(c, label) == ctl[c].pc = label

Tick == clock < MaxClock /\ clock' = clock + 1

----------------------------------------------------------------------------
(* The record changes the controller makes *)

\* Mutant: start writes a fresh record instead of the loaded one.
MarkRunningFresh(st, now) ==
    [ContainerState(st.ID, st.Bundle, 0) EXCEPT
        !.Status = Running, !.CreatedAt = st.CreatedAt, !.StartedAt = Ptr(now)]

\* cmdStart: st.Status = state.Running; st.StartedAt = &now
MarkRunning(st, now) == [st EXCEPT !.Status = Running, !.StartedAt = Ptr(now)]

\* cmdState, cmdDelete (self-heal): st.Status = state.Stopped; st.ExitedAt = &now
MarkStopped(st, now) == [st EXCEPT !.Status = Stopped, !.ExitedAt = Ptr(now)]

\* Mutant: the exit code is not stored.
MarkExitedNoCode(st, now, code) == MarkStopped(st, now)

\* waitProcess: st.Status = state.Stopped; st.ExitedAt = &now; st.ExitCode = &code
MarkExited(st, now, code) ==
    [st EXCEPT !.Status = Stopped, !.ExitedAt = Ptr(now), !.ExitCode = Ptr(code)]

\* cmdState's output document.
StateOutput(st) == [id |-> st.ID, pid |-> st.Pid, status |-> st.Status, bundle |-> st.Bundle]

----------------------------------------------------------------------------
(* run() of the CLI: dispatch, and what it makes of each command's result *)

FirstLabel(cmd) ==
    CASE cmd \in {"create", "run"} -> "c_exists"
      [] cmd = "start" -> "s_load"
      [] cmd = "state" -> "st_load"
      [] cmd = "kill" -> "k_load"
      [] cmd = "delete" -> "d_load"

Done(code, e) == [pc |-> "done", ret |-> code, err |-> e]

\* cmdCreate returned e ("" is nil): run goes on to cmdStart.
CreateReturn(c, e) ==
    IF e # "" THEN Done(1, e)
    ELSE IF ctl[c].cmd = "run" THEN [pc |-> "s_load"]
    ELSE Done(0, "")

\* cmdStart returned e: run deletes the container on an error, else waits.
StartReturn(c, e) ==
    IF ctl[c].cmd = "run"
    THEN IF e # "" THEN [pc |-> "d_load", failed |-> TRUE, err |-> e]
         ELSE [pc |-> "w_load"]
    ELSE Done(IF e = "" THEN 0 ELSE 1, e)

\* cmdDelete returned e: run ignores it after a failed start and returns 1.
DeleteReturn(c, e) ==
    IF ctl[c].failed THEN Done(1, ctl[c].err)
    ELSE Done(IF e = "" THEN 0 ELSE 1, e)

\* The exit code of `runproc run` after waitProcess returned (code, nil):
\* run drops the code (`if _, err := waitProcess(sd, id)`) and returns 0.
RunExitCode(code) == 0

\* Where the caller of state.Save goes on once Save returned e.
AfterSave(c, e) ==
    CASE ctl[c].cont = "s_ret" -> StartReturn(c, e)
      [] ctl[c].cont = "st_out" ->
            Done(0, "") @@ [out |-> <<StateOutput(ctl[c].st)>>]
      [] ctl[c].cont = "d_delete" -> [pc |-> "d_delete"]
      [] ctl[c].cont = "w_ret" -> Done(RunExitCode(ctl[c].code), "")

Snapshot ==
    [stateFile |-> stateFile, dir |-> dir, marker |-> marker,
     alive |-> stateFile.kind = "doc" /\ pidAlive(stateFile.doc.pid)]

\* One invocation of the CLI, of a command in cmds, is issued (n: what it
\* counts for in hist.issued).
Dispatch(c, n, cmds) ==
    /\ At(c, "idle")
    /\ \E cmd \in cmds :
       \E bundle \in IF cmd \in {"create", "run"} THEN Bundles ELSE {""} :
       \E pf \in IF cmd = "create" /\ bundle \in {"ok", "bad"} THEN PidFiles ELSE {""} :
       \E signal \in IF cmd = "kill" THEN SignalArgs ELSE {<<>>} :
          /\ ctl' = [ctl EXCEPT ![c] =
                        [IdleCtl EXCEPT !.pc = FirstLabel(cmd), !.cmd = cmd,
                                        !.bundle = bundle, !.pidFile = pf,
                                        !.signal = signal]]
          /\ hist' = [hist EXCEPT
                        !.created = IF cmd \in {"start", "kill", "delete", "run"}
                                    THEN 0 ELSE @,
                        !.issued = @ + n]
    /\ pre' = [pre EXCEPT ![c] = Snapshot]
    /\ UNCHANGED <<fsVars, pidFile, proc, clock, sys>>

\* Commands issued at any time, also while another invocation runs (an
\* invocation takes the first free slot).
Invoke(c) ==
    /\ hist.issued < MaxCmds
    /\ \A d \in Ctl : d < c => ~At(d, "idle")
    /\ Dispatch(c, 1, ParCommands)

\* Commands issued one at a time, each when the previous one has returned.
InvokeSeq(c) ==
    /\ c = 1
    /\ \A d \in Ctl : At(d, "idle")
    /\ Dispatch(c, 0, Commands)

\* The invocation's process exits: its pipe ends close and its children are
\* reparented.
Exit(c) ==
    /\ At(c, "done")
    /\ ctl' = [ctl EXCEPT ![c] = IdleCtl]
    /\ pre' = [pre EXCEPT ![c] = NoPre]
    /\ proc' = [p \in Pids |->
                  [proc[p] EXCEPT
                     !.parent = IF @ = c THEN 0 ELSE @,
                     !.pipe = IF proc[p].parent = c /\ @ = "open" THEN "eof" ELSE @]]
    /\ hist' = [hist EXCEPT
                  !.created = IF ctl[c].cmd = "create" /\ ctl[c].ret = 0
                              THEN ctl[c].child ELSE @]
    /\ UNCHANGED <<fsVars, pidFile, clock, sys>>

----------------------------------------------------------------------------
(* cmdCreate, with state.Create *)

FreePids == {p \in Pids : proc[p].phase = "none"}

\* The pid the OS gives the next process.
NextPid == CHOOSE p \in FreePids : \A q \in FreePids : p <= q

\* Mutant: cmdCreate without its state.Exists check.
cmdCreate_NoExists(c) ==
    /\ At(c, "c_exists")
    /\ Go(c, IF LoadSpec(ctl[c].bundle).err THEN Done(1, "spec")
             ELSE [pc |-> "c_spawn"])
    /\ UNCHANGED <<fsVars, pidFile, proc, clock, pre, hist, sys>>

\* state.Exists, then oci.LoadSpec.
cmdCreate_Exists(c) ==
    /\ At(c, "c_exists")
    /\ Go(c, IF Exists THEN Done(1, "exists")
             ELSE IF LoadSpec(ctl[c].bundle).err THEN Done(1, "spec")
             ELSE [pc |-> "c_spawn"])
    /\ UNCHANGED <<fsVars, pidFile, proc, clock, pre, hist, sys>>

\* os.Pipe, cmd.Start: the init process exists and holds the read end.
cmdCreate_Start(c) ==
    /\ At(c, "c_spawn")
    /\ FreePids # {}
    /\ proc' = [proc EXCEPT ![NextPid] =
                  [NoProc EXCEPT !.phase = "decode", !.parent = c, !.pipe = "open"]]
    /\ Go(c, [pc |-> "c_mkdir", child |-> NextPid,
              st |-> ContainerState(TheId, ctl[c].bundle, NextPid)])
    /\ UNCHANGED <<fsVars, pidFile, clock, pre, hist, sys>>

\* cmdCreate when state.Create returned an error: kill and release the child.
CreateFailed(c, e) ==
    /\ proc' = NoteAbandoned(Deliver(proc, ctl[c].child, SIGKILL), ctl[c].child)
    /\ Go(c, CreateReturn(c, e))

\* state.Create: os.MkdirAll(d)
Create_MkdirAll(c) ==
    /\ At(c, "c_mkdir")
    /\ dir' = TRUE
    /\ Go(c, [pc |-> "c_stat"])
    /\ UNCHANGED <<stateFile, tmpFile, marker, pidFile, proc, clock, pre, hist, sys>>

\* state.Create: os.Stat(p); st.CreatedAt = time.Now(); st.Status = Created
Create_Stat(c) ==
    /\ At(c, "c_stat")
    /\ IF Exists
       THEN /\ CreateFailed(c, "exists")
            /\ UNCHANGED clock
       ELSE /\ Tick
            /\ Go(c, [pc |-> "c_open",
                      st |-> [ctl[c].st EXCEPT !.CreatedAt = clock', !.Status = Created]])
            /\ UNCHANGED proc
    /\ UNCHANGED <<fsVars, pidFile, pre, hist, sys>>

\* state.Create: os.OpenFile(p, O_CREATE|O_WRONLY|O_TRUNC)
Create_OpenFile(c) ==
    /\ At(c, "c_open")
    /\ IF dir
       THEN /\ stateFile' = Empty
            /\ Go(c, [pc |-> "c_write", fd |-> "state"])
            /\ UNCHANGED proc
       ELSE /\ CreateFailed(c, "enoent")
            /\ UNCHANGED stateFile
    /\ UNCHANGED <<dir, tmpFile, marker, pidFile, clock, pre, hist, sys>>

\* state.Create: enc.Encode(st), f.Close()
Create_Encode(c) ==
    /\ At(c, "c_write")
    /\ stateFile' = IF ctl[c].fd = "state" THEN Doc(Encode(ctl[c].st)) ELSE stateFile
    /\ Go(c, [pc |-> IF ctl[c].pidFile # "" THEN "c_pidfile" ELSE "c_pipe",
              fd |-> "none"])
    /\ proc' = [proc EXCEPT ![ctl[c].child] =
                  IF @.phase \in LivePhases
                  THEN [@ EXCEPT !.recorded = ctl[c].st.Pid] ELSE @]
    /\ UNCHANGED <<dir, tmpFile, marker, pidFile, clock, pre, hist, sys>>

\* os.WriteFile(pidFile, strconv.Itoa(cmd.Process.Pid)): on an error cmdCreate
\* returns it, the child and the pipe are left as they are.
cmdCreate_WritePidFile(c) ==
    /\ At(c, "c_pidfile")
    /\ IF WriteFileFails(ctl[c].pidFile)
       THEN /\ Go(c, CreateReturn(c, "pidfile"))
            /\ proc' = NoteAbandoned(proc, ctl[c].child)
            /\ UNCHANGED pidFile
       ELSE /\ pidFile' = ctl[c].child
            /\ Go(c, [pc |-> "c_pipe"])
            /\ UNCHANGED proc
    /\ UNCHANGED <<fsVars, clock, pre, hist, sys>>

\* json.NewEncoder(pw).Encode(spec.Process), pw.Close(): the write fails when
\* the child, the only reader, has ended.
cmdCreate_Encode(c) ==
    /\ At(c, "c_pipe")
    /\ IF proc[ctl[c].child].phase \in LivePhases
       THEN /\ proc' = [proc EXCEPT ![ctl[c].child] =
                          [@ EXCEPT !.pipe = "msg",
                                    !.wire = LoadSpec(ctl[c].bundle).Process]]
            /\ Go(c, CreateReturn(c, ""))
       ELSE /\ Go(c, CreateReturn(c, "epipe"))
            /\ proc' = NoteAbandoned(proc, ctl[c].child)
    /\ UNCHANGED <<fsVars, pidFile, clock, pre, hist, sys>>

----------------------------------------------------------------------------
(* state.Save: temp file, then rename *)

\* Mutant: Save opens state.json itself, as state.Create does.
Save_OpenFileInPlace(c) ==
    /\ At(c, "sv_open")
    /\ IF dir
       THEN /\ stateFile' = Empty
            /\ ctl' = [Detach(ctl, "state", "orphan") EXCEPT
                         ![c] = [pc |-> "sv_write", fd |-> "state"] @@ @]
       ELSE /\ Go(c, AfterSave(c, "enoent"))
            /\ UNCHANGED stateFile
    /\ UNCHANGED <<dir, tmpFile, marker, pidFile, proc, clock, pre, hist, sys>>

\* os.OpenFile(tmp, O_CREATE|O_WRONLY|O_TRUNC)
Save_OpenFile(c) ==
    /\ At(c, "sv_open")
    /\ IF dir
       THEN /\ tmpFile' = Empty
            /\ Go(c, [pc |-> "sv_write", fd |-> "tmp"])
       ELSE /\ Go(c, AfterSave(c, "enoent"))
            /\ UNCHANGED tmpFile
    /\ UNCHANGED <<dir, stateFile, marker, pidFile, proc, clock, pre, hist, sys>>

\* enc.Encode(st), f.Close(): the write goes to the file the descriptor holds,
\* whatever its path is by now.
Save_Encode(c) ==
    /\ At(c, "sv_write")
    /\ tmpFile' = IF ctl[c].fd = "tmp" THEN Doc(Encode(ctl[c].st)) ELSE tmpFile
    /\ stateFile' = IF ctl[c].fd = "state" THEN Doc(Encode(ctl[c].st)) ELSE stateFile
    /\ Go(c, [pc |-> "sv_rename", fd |-> "none"])
    /\ UNCHANGED <<dir, marker, pidFile, proc, clock, pre, hist, sys>>

\* os.Rename(tmp, p)
Save_Rename(c) ==
    /\ At(c, "sv_rename")
    /\ IF tmpFile.kind # "absent"
       THEN /\ stateFile' = tmpFile
            /\ tmpFile' = Absent
            /\ ctl' = [Detach(Detach(ctl, "state", "orphan"), "tmp", "state")
                         EXCEPT ![c] = AfterSave(c, "") @@ [solo |-> FALSE] @@ @]
            /\ proc' = IF ctl[c].cont = "s_ret" THEN NoteReturned(proc) ELSE proc
       ELSE /\ Go(c, AfterSave(c, "enoent"))
            /\ UNCHANGED <<stateFile, tmpFile, proc>>
    /\ UNCHANGED <<dir, marker, pidFile, clock, pre, hist, sys>>

----------------------------------------------------------------------------
(* cmdStart *)

\* Mutant: cmdStart without the early return on a running record.
cmdStart_LoadNoCheck(c) ==
    /\ At(c, "s_load")
    /\ Go(c, IF Load.err # "" THEN StartReturn(c, Load.err)
             ELSE [pc |-> "s_marker", st |-> Load.st])
    /\ UNCHANGED <<fsVars, pidFile, proc, clock, pre, hist, sys>>

cmdStart_Load(c) ==
    /\ At(c, "s_load")
    /\ Go(c, IF Load.err # "" THEN StartReturn(c, Load.err)
             ELSE IF Load.st.Status = Running THEN StartReturn(c, "")
             ELSE [pc |-> "s_marker", st |-> Load.st])
    /\ proc' = IF Load.err = "" /\ Load.st.Status = Running
               THEN NoteReturned(proc) ELSE proc
    /\ UNCHANGED <<fsVars, pidFile, clock, pre, hist, sys>>

\* Mutant: start saves the running status without writing the start file.
cmdStart_WriteFileSkipped(c) ==
    /\ At(c, "s_marker")
    /\ IF dir
       THEN /\ Tick
            /\ Go(c, [pc |-> "sv_open", cont |-> "s_ret",
                      st |-> MarkRunning(ctl[c].st, clock')])
       ELSE /\ Go(c, StartReturn(c, "enoent"))
            /\ UNCHANGED clock
    /\ UNCHANGED <<fsVars, pidFile, proc, pre, hist, sys>>

\* os.WriteFile(startPath, "start"); now := time.Now(); st.Status = Running;
\* st.StartedAt = &now; then state.Save
cmdStart_WriteFile(c) ==
    /\ At(c, "s_marker")
    /\ IF dir
       THEN /\ marker' = TRUE
            /\ Tick
            /\ Go(c, [pc |-> "sv_open", cont |-> "s_ret",
                      st |-> MarkRunning(ctl[c].st, clock')])
            /\ proc' = NoteStarted(proc)
       ELSE /\ Go(c, StartReturn(c, "enoent"))
            /\ UNCHANGED <<marker, clock, proc>>
    /\ UNCHANGED <<dir, stateFile, tmpFile, pidFile, pre, hist, sys>>

----------------------------------------------------------------------------
(* cmdState *)

\* Mutant: the liveness check is made for a created record too.
cmdState_LoadHealCreated(c) ==
    /\ At(c, "st_load")
    /\ Go(c, IF Load.err # "" THEN Done(1, Load.err)
             ELSE IF Load.st.Status \in {Created, Running}
             THEN [pc |-> "st_alive", st |-> Load.st]
             ELSE Done(0, "") @@ [st |-> Load.st, out |-> <<StateOutput(Load.st)>>])
    /\ UNCHANGED <<fsVars, pidFile, proc, clock, pre, hist, sys>>

\* Mutant: the liveness check is made whatever the status is.
cmdState_LoadAnyStatus(c) ==
    /\ At(c, "st_load")
    /\ Go(c, IF Load.err # "" THEN Done(1, Load.err)
             ELSE [pc |-> "st_alive", st |-> Load.st])
    /\ UNCHANGED <<fsVars, pidFile, proc, clock, pre, hist, sys>>

cmdState_Load(c) ==
    /\ At(c, "st_load")
    /\ Go(c, IF Load.err # "" THEN Done(1, Load.err)
             ELSE IF Load.st.Status = Running THEN [pc |-> "st_alive", st |-> Load.st]
             ELSE Done(0, "") @@ [st |-> Load.st, out |-> <<StateOutput(Load.st)>>])
    /\ UNCHANGED <<fsVars, pidFile, proc, clock, pre, hist, sys>>

\* Mutant: the self-heal also removes the start file.
cmdState_pidAliveUnmark(c) ==
    /\ At(c, "st_alive")
    /\ IF pidAlive(ctl[c].st.Pid)
       THEN /\ Go(c, Done(0, "") @@ [out |-> <<StateOutput(ctl[c].st)>>])
            /\ UNCHANGED <<clock, marker>>
       ELSE /\ Tick
            /\ marker' = FALSE
            /\ Go(c, [pc |-> "sv_open", cont |-> "st_out",
                      st |-> MarkStopped(ctl[c].st, clock')])
    /\ UNCHANGED <<dir, stateFile, tmpFile, pidFile, proc, pre, hist, sys>>

\* Self-heal: st.Status == Running && !pidAlive(st.Pid)
cmdState_pidAlive(c) ==
    /\ At(c, "st_alive")
    /\ IF pidAlive(ctl[c].st.Pid)
       THEN /\ Go(c, Done(0, "") @@ [out |-> <<StateOutput(ctl[c].st)>>])
            /\ UNCHANGED clock
       ELSE /\ Tick
            /\ Go(c, [pc |-> "sv_open", cont |-> "st_out",
                      st |-> MarkStopped(ctl[c].st, clock')])
    /\ UNCHANGED <<fsVars, pidFile, proc, pre, hist, sys>>

----------------------------------------------------------------------------
(* cmdKill *)

\* Mutant: kill refuses a record that is not running.
cmdKill_LoadRunningOnly(c) ==
    /\ At(c, "k_load")
    /\ Go(c, IF Load.err = "notexist" THEN Done(0, "")
             ELSE IF Load.err # "" THEN Done(1, Load.err)
             ELSE IF Load.st.Pid <= 0 \/ Load.st.Status # Running THEN Done(1, "no pid")
             ELSE [pc |-> "k_kill", st |-> Load.st,
                   sig |-> ResolveSignal(KillSignal(ctl[c].signal))])
    /\ UNCHANGED <<fsVars, pidFile, proc, clock, pre, hist, sys>>

cmdKill_Load(c) ==
    /\ At(c, "k_load")
    /\ Go(c, IF Load.err = "notexist" THEN Done(0, "")
             ELSE IF Load.err # "" THEN Done(1, Load.err)
             ELSE IF Load.st.Pid <= 0 THEN Done(1, "no pid")
             ELSE [pc |-> "k_kill", st |-> Load.st,
                   sig |-> ResolveSignal(KillSignal(ctl[c].signal))])
    /\ UNCHANGED <<fsVars, pidFile, proc, clock, pre, hist, sys>>

\* Mutant: kill records the process it signalled as stopped.
cmdKill_KillAndMark(c) ==
    /\ At(c, "k_kill")
    /\ IF ~ValidSignal(ctl[c].sig)
       THEN /\ Go(c, Done(1, "einval"))
            /\ UNCHANGED <<proc, stateFile>>
       ELSE IF ProcExists(ctl[c].st.Pid)
       THEN /\ \E dies \in SignalOutcomes(ctl[c].sig) :
                  proc' = IF dies THEN Deliver(proc, ctl[c].st.Pid, ctl[c].sig)
                          ELSE proc
            /\ stateFile' = Doc(Encode(MarkStopped(ctl[c].st, clock)))
            /\ Go(c, Done(0, ""))
       ELSE /\ Go(c, Done(1, "esrch"))
            /\ UNCHANGED <<proc, stateFile>>
    /\ UNCHANGED <<dir, tmpFile, marker, pidFile, clock, pre, hist, sys>>

\* syscall.Kill(st.Pid, sig)
cmdKill_Kill(c) ==
    /\ At(c, "k_kill")
    /\ IF ~ValidSignal(ctl[c].sig)
       THEN /\ Go(c, Done(1, "einval"))
            /\ UNCHANGED proc
       ELSE IF ProcExists(ctl[c].st.Pid)
       THEN /\ \E dies \in SignalOutcomes(ctl[c].sig) :
                  proc' = IF dies THEN Deliver(proc, ctl[c].st.Pid, ctl[c].sig)
                          ELSE proc
            /\ Go(c, Done(0, ""))
       ELSE /\ Go(c, Done(1, "esrch"))
            /\ UNCHANGED proc
    /\ UNCHANGED <<fsVars, pidFile, clock, pre, hist, sys>>

----------------------------------------------------------------------------
(* cmdDelete, with state.Delete *)

\* Mutant: a missing record is an error like any other.
cmdDelete_LoadStrict(c) ==
    /\ At(c, "d_load")
    /\ Go(c, IF Load.err # "" THEN DeleteReturn(c, Load.err)
             ELSE IF Load.st.Status = Running THEN [pc |-> "d_alive", st |-> Load.st]
             ELSE [pc |-> "d_delete", st |-> Load.st])
    /\ UNCHANGED <<fsVars, pidFile, proc, clock, pre, hist, sys>>

cmdDelete_Load(c) ==
    /\ At(c, "d_load")
    /\ Go(c, IF Load.err = "notexist" THEN DeleteReturn(c, "")
             ELSE IF Load.err # "" THEN DeleteReturn(c, Load.err)
             ELSE IF Load.st.Status = Running THEN [pc |-> "d_alive", st |-> Load.st]
             ELSE [pc |-> "d_delete", st |-> Load.st])
    /\ UNCHANGED <<fsVars, pidFile, proc, clock, pre, hist, sys>>

\* alive := pidAlive(st.Pid); a dead process makes the record stopped
cmdDelete_pidAlive(c) ==
    /\ At(c, "d_alive")
    /\ IF pidAlive(ctl[c].st.Pid)
       THEN /\ Go(c, [pc |-> "d_kill"])
            /\ UNCHANGED clock
       ELSE /\ Tick
            /\ Go(c, [pc |-> "sv_open", cont |-> "d_delete",
                      st |-> MarkStopped(ctl[c].st, clock')])
    /\ UNCHANGED <<fsVars, pidFile, proc, pre, hist, sys>>

\* _ = syscall.Kill(st.Pid, syscall.SIGKILL)
cmdDelete_Kill(c) ==
    /\ At(c, "d_kill")
    /\ proc' = Deliver(proc, ctl[c].st.Pid, SIGKILL)
    /\ Go(c, [pc |-> "d_poll", i |-> 0])
    /\ UNCHANGED <<fsVars, pidFile, clock, pre, hist, sys>>

\* Mutant: delete waits until the process is gone, however long that takes.
cmdDelete_PollUntilGone(c) ==
    /\ At(c, "d_poll")
    /\ ~pidAlive(ctl[c].st.Pid)
    /\ Tick
    /\ Go(c, [pc |-> "sv_open", cont |-> "d_delete", i |-> 0,
              st |-> MarkStopped(ctl[c].st, clock')])
    /\ UNCHANGED <<fsVars, pidFile, proc, pre, hist, sys>>

\* One round of: for i := 0; i < 20; i++ { if !pidAlive(st.Pid) {...; break}; sleep }
cmdDelete_Poll(c) ==
    /\ At(c, "d_poll")
    /\ IF pidAlive(ctl[c].st.Pid)
       THEN /\ Go(c, IF ctl[c].i + 1 < DeletePolls THEN [i |-> ctl[c].i + 1]
                     ELSE [pc |-> "d_delete", i |-> 0])
            /\ UNCHANGED clock
       ELSE /\ Tick
            /\ Go(c, [pc |-> "sv_open", cont |-> "d_delete", i |-> 0,
                      st |-> MarkStopped(ctl[c].st, clock')])
    /\ UNCHANGED <<fsVars, pidFile, proc, pre, hist, sys>>

\* state.Delete: os.RemoveAll(dirFor(stateRoot, id))
Delete_RemoveAll(c) ==
    /\ At(c, "d_delete")
    /\ dir' = FALSE
    /\ stateFile' = Absent
    /\ tmpFile' = Absent
    /\ marker' = FALSE
    /\ ctl' = [Detach(Detach(ctl, "state", "orphan"), "tmp", "orphan")
                 EXCEPT ![c] = DeleteReturn(c, "") @@ @]
    /\ UNCHANGED <<pidFile, proc, clock, pre, hist, sys>>

----------------------------------------------------------------------------
(* waitProcess *)

waitProcess_Load(c) ==
    /\ At(c, "w_load")
    /\ Go(c, IF Load.err # "" THEN Done(1, Load.err)
             ELSE IF Load.st.Pid <= 0 THEN Done(1, "no pid")
             ELSE [pc |-> "w_wait", st |-> Load.st])
    /\ UNCHANGED <<fsVars, pidFile, proc, clock, pre, hist, sys>>

\* syscall.Wait4(st.Pid, &ws, 0, &rusage): blocks while the child runs, fails
\* (ECHILD) for a process that is not a child of this invocation; then
\* code := ws.ExitStatus() and the record becomes stopped.
waitProcess_Wait4(c) ==
    /\ At(c, "w_wait")
    /\ LET pid == ctl[c].st.Pid IN
       IF proc[pid].parent # c \/ proc[pid].phase \in {"none", "gone"}
       THEN /\ Go(c, Done(1, "echild"))
            /\ UNCHANGED <<proc, clock>>
       ELSE /\ proc[pid].phase = "zombie"
            /\ proc' = [proc EXCEPT ![pid] = [@ EXCEPT !.phase = "gone"]]
            /\ Tick
            /\ Go(c, [pc |-> "sv_open", cont |-> "w_ret", reaped |-> pid,
                      code |-> ExitStatus(proc[pid].ws),
                      st |-> MarkExited(ctl[c].st, clock', ExitStatus(proc[pid].ws))])
    /\ UNCHANGED <<fsVars, pidFile, pre, hist, sys>>

----------------------------------------------------------------------------
(* cmdInit: the init process, and the target program it becomes *)

\* The init process ends: os.Exit(1) after an error, exit status 2 after a panic.
InitFails(pid, code) == proc' = Terminate(proc, pid, [exited |-> TRUE, code |-> code])

\* Mutant: the init process does not wait for the Process message.
cmdInit_DecodeEarly(pid) ==
    /\ proc[pid].phase = "decode"
    /\ proc' = [proc EXCEPT ![pid] =
                  [@ EXCEPT !.phase = "poll", !.p = proc[pid].wire,
                            !.wire = NoProc.wire,
                            !.pipe = IF @ = "msg" THEN "none" ELSE @]]
    /\ UNCHANGED <<fsVars, pidFile, clock, ctl, pre, hist, sys>>

\* Mutant: a failed decode is ignored.
cmdInit_DecodeLenient(pid) ==
    /\ proc[pid].phase = "decode"
    /\ proc[pid].pipe # "open"
    /\ proc' = [proc EXCEPT ![pid] =
                  [@ EXCEPT !.phase = "poll", !.p = proc[pid].wire,
                            !.wire = NoProc.wire, !.pipe = "none"]]
    /\ UNCHANGED <<fsVars, pidFile, clock, ctl, pre, hist, sys>>

\* json.NewDecoder(pipe).Decode(&p): blocks until the parent wrote or closed.
cmdInit_Decode(pid) ==
    /\ proc[pid].phase = "decode"
    /\ proc[pid].pipe # "open"
    /\ IF proc[pid].pipe = "msg"
       THEN proc' = [proc EXCEPT ![pid] =
                       [@ EXCEPT !.phase = "poll", !.p = proc[pid].wire,
                                 !.wire = NoProc.wire, !.pipe = "none"]]
       ELSE InitFails(pid, 1)
    /\ UNCHANGED <<fsVars, pidFile, clock, ctl, pre, hist, sys>>

\* Mutant: the init process does not wait for the start file.
cmdInit_NoWait(pid) ==
    /\ proc[pid].phase = "poll"
    /\ proc' = [proc EXCEPT ![pid] = [@ EXCEPT !.phase = "load"]]
    /\ UNCHANGED <<fsVars, pidFile, clock, ctl, pre, hist, sys>>

\* Mutant: the init process gives up when it finds no start file.
cmdInit_StatGiveUp(pid) ==
    /\ proc[pid].phase = "poll"
    /\ IF marker
       THEN proc' = [proc EXCEPT ![pid] = [@ EXCEPT !.phase = "load"]]
       ELSE InitFails(pid, 1)
    /\ UNCHANGED <<fsVars, pidFile, clock, ctl, pre, hist, sys>>

\* Mutant: the init process removes the start file once it has seen it.
cmdInit_StatRemove(pid) ==
    /\ proc[pid].phase = "poll"
    /\ marker
    /\ marker' = FALSE
    /\ proc' = [proc EXCEPT ![pid] = [@ EXCEPT !.phase = "load"]]
    /\ UNCHANGED <<dir, stateFile, tmpFile, pidFile, clock, ctl, pre, hist, sys>>

\* for { if _, err := os.Stat(startPath); err == nil { break }; sleep }
cmdInit_Stat(pid) ==
    /\ proc[pid].phase = "poll"
    /\ marker
    /\ proc' = [proc EXCEPT ![pid] = [@ EXCEPT !.phase = "load"]]
    /\ UNCHANGED <<fsVars, pidFile, clock, ctl, pre, hist, sys>>

\* state.Load(stateDir, id), oci.LoadSpec(st.Bundle), the host-mode checks
\* and syscall.Chroot(rootfs), os.Chdir("/") on a root directory that exists.
cmdInit_Load(pid) ==
    /\ proc[pid].phase = "load"
    /\ IF Load.err # "" \/ LoadSpec(Load.st.Bundle).err
       THEN InitFails(pid, 1)
       ELSE LET spec == LoadSpec(Load.st.Bundle)
                mode == hostMode(sys.RUNPROC_HOST, proc[pid].p.Env, spec.Annotations)
            IN  proc' = [proc EXCEPT ![pid] =
                           [@ EXCEPT !.phase = "exec",
                                     !.chroot = Chroots(mode, spec.Root, sys.Euid)]]
    /\ UNCHANGED <<fsVars, pidFile, clock, ctl, pre, hist, sys>>

\* argv := []string{p.Args[0]} (a panic on empty args), ..., syscall.Exec:
\* the process image is replaced, the process stays the same.
cmdInit_Exec(pid) ==
    /\ proc[pid].phase = "exec"
    /\ IF proc[pid].p.Args = <<>>
       THEN InitFails(pid, 2)
       ELSE proc' = [proc EXCEPT ![pid] = [@ EXCEPT !.phase = "target", !.p = NoProc.p]]
    /\ UNCHANGED <<fsVars, pidFile, clock, ctl, pre, hist, sys>>

\* Mutant: the exit of the target program is recorded at once.
TargetExitRecorded(pid) ==
    /\ proc[pid].phase = "target"
    /\ \E code \in ExitCodes :
          /\ proc' = Terminate(proc, pid, [exited |-> TRUE, code |-> code])
          /\ stateFile' = IF stateFile.kind = "doc"
                          THEN Doc(Encode(MarkExited(Decode(stateFile.doc), clock, code)))
                          ELSE stateFile
    /\ UNCHANGED <<dir, tmpFile, marker, pidFile, clock, ctl, pre, hist, sys>>

\* The target program exits.
TargetExit(pid) ==
    /\ proc[pid].phase = "target"
    /\ \E code \in ExitCodes :
          proc' = Terminate(proc, pid, [exited |-> TRUE, code |-> code])
    /\ UNCHANGED <<fsVars, pidFile, clock, ctl, pre, hist, sys>>

\* A process that ended after its parent did is reaped by the system.
OrphanReaped(pid) ==
    /\ proc[pid].phase = "zombie"
    /\ proc[pid].parent = 0
    /\ proc' = [proc EXCEPT ![pid] = [NoProc EXCEPT !.phase = "gone"]]
    /\ UNCHANGED <<fsVars, pidFile, clock, ctl, pre, hist, sys>>

----------------------------------------------------------------------------
(* Specifications *)

Step(c) ==
    \/ Exit(c)
    \/ cmdCreate_Exists(c)
    \/ cmdCreate_Start(c)
    \/ Create_MkdirAll(c)
    \/ Create_Stat(c)
    \/ Create_OpenFile(c)
    \/ Create_Encode(c)
    \/ cmdCreate_WritePidFile(c)
    \/ cmdCreate_Encode(c)
    \/ Save_OpenFile(c)
    \/ Save_Encode(c)
    \/ Save_Rename(c)
    \/ cmdStart_Load(c)
    \/ cmdStart_WriteFile(c)
    \/ cmdState_Load(c)
    \/ cmdState_pidAlive(c)
    \/ cmdKill_Load(c)
    \/ cmdKill_Kill(c)
    \/ cmdDelete_Load(c)
    \/ cmdDelete_pidAlive(c)
    \/ cmdDelete_Kill(c)
    \/ cmdDelete_Poll(c)
    \/ Delete_RemoveAll(c)

\* run's wait for the process it started.
Wait(c) ==
    \/ waitProcess_Load(c)
    \/ waitProcess_Wait4(c)

Supervise(pid) ==
    \/ cmdInit_Decode(pid)
    \/ cmdInit_Stat(pid)
    \/ cmdInit_Load(pid)
    \/ cmdInit_Exec(pid)
    \/ TargetExit(pid)
    \/ OrphanReaped(pid)

\* Any number of invocations of create, start, state, kill and delete at a time.
Next ==
    \/ \E c \in Ctl : Invoke(c) \/ Step(c)
    \/ \E pid \in Pids : Supervise(pid)

Spec == Init /\ [][Next]_vars

\* One invocation at a time; the init processes run beside it.
NextSeq ==
    \/ \E c \in Ctl : InvokeSeq(c) \/ Step(c) \/ Wait(c)
    \/ \E pid \in Pids : Supervise(pid)

SpecSeq == Init /\ [][NextSeq]_vars

\* The same, where an invocation that can take a step takes one eventually: a
\* CLI process is scheduled and none of its calls but Wait4 blocks.  Nothing
\* is assumed of the init processes, the target or the reaping of orphans.
SpecSeqLive == SpecSeq /\ WF_vars(\E c \in Ctl : Step(c))

\* The steps of cmdInit in process pid.
InitRuns(pid) ==
    \/ cmdInit_Decode(pid)
    \/ cmdInit_Stat(pid)
    \/ cmdInit_Load(pid)
    \/ cmdInit_Exec(pid)

\* Fair scheduling of all processes: a controller invocation and an init
\* process that can take a step take one eventually (the poll loop of cmdInit
\* comes round every 100ms).  Nothing is assumed of the target program.
SpecSeqFair == SpecSeqLive /\ \A pid \in Pids : WF_vars(InitRuns(pid))

\* Invocations issued while a run is in progress.
MaxBeside == 1

\* A run is issued first; while it goes through create, start and waitProcess,
\* other commands are issued on the same identifier.
InvokeRun(c) ==
    /\ c = 1
    /\ hist.issued = 0
    /\ Dispatch(c, 1, {"run"})

InvokeBeside(c) ==
    /\ hist.issued \in 1..MaxBeside
    /\ \A d \in Ctl : d < c => ~At(d, "idle")
    /\ Dispatch(c, 1, ParCommands)

NextRun ==
    \/ \E c \in Ctl : InvokeRun(c) \/ InvokeBeside(c) \/ Step(c) \/ Wait(c)
    \/ \E pid \in Pids : Supervise(pid)

SpecRun == Init /\ [][NextRun]_vars

\* kill on its own: a record as create leaves it, its init process waiting
\* for start, and one kill invocation for every signal argument of KillArgs.
KillRecord == [ContainerState(TheId, "ok", 1) EXCEPT !.CreatedAt = 1, !.Status = Created]

InitKill ==
    /\ sys = DefaultSys
    /\ dir = TRUE
    /\ stateFile = Doc(Encode(KillRecord))
    /\ tmpFile = Absent
    /\ marker = FALSE
    /\ pidFile = 0
    /\ proc = [p \in Pids |->
                 IF p = KillRecord.Pid
                 THEN [NoProc EXCEPT !.phase = "poll", !.p = LoadSpec("ok").Process,
                                     !.recorded = p]
                 ELSE NoProc]
    /\ clock = KillRecord.CreatedAt
    /\ \E arg \in KillArgs :
          ctl = [c \in Ctl |->
                   IF c = 1
                   THEN [IdleCtl EXCEPT !.pc = FirstLabel("kill"), !.cmd = "kill",
                                        !.signal = arg]
                   ELSE IdleCtl]
    /\ pre = [c \in Ctl |-> IF c = 1 THEN Snapshot ELSE NoPre]
    /\ hist = [created |-> 0, issued |-> 0]

NextKill == \E c \in Ctl : cmdKill_Load(c) \/ cmdKill_Kill(c) \/ Exit(c)

SpecKill == InitKill /\ [][NextKill]_vars

\* The host-mode decision on its own: a record as start leaves it, the marker
\* written, the init process about to load the record, under every setting
\* of SysSettings.
HostRecord == [KillRecord EXCEPT !.Status = Running, !.StartedAt = Ptr(2)]

InitHost ==
    /\ sys \in SysSettings
    /\ dir = TRUE
    /\ stateFile = Doc(Encode(HostRecord))
    /\ tmpFile = Absent
    /\ marker = TRUE
    /\ pidFile = 0
    /\ proc = [p \in Pids |->
                 IF p = HostRecord.Pid
                 THEN [NoProc EXCEPT !.phase = "load", !.p = LoadSpec("ok").Process,
                                     !.started = TRUE, !.returned = TRUE,
                                     !.recorded = p]
                 ELSE NoProc]
    /\ clock = HostRecord.StartedAt[1]
    /\ ctl = [c \in Ctl |-> IdleCtl]
    /\ pre = [c \in Ctl |-> NoPre]
    /\ hist = [created |-> 0, issued |-> 0]

NextHost == \E pid \in Pids : cmdInit_Load(pid) \/ cmdInit_Exec(pid)

SpecHost == InitHost /\ [][NextHost]_vars

----------------------------------------------------------------------------
(* Properties *)

\* The persisted record, when state.json holds a complete document.
HasRecord == stateFile.kind = "doc"

Rec == Decode(stateFile.doc)

\* An invocation of cmd that has returned and whose process has not exited yet.
Returned(c, cmd) == At(c, "done") /\ ctl[c].cmd = cmd

\* The record the invocation found when it was issued.
Found(c) == pre[c].stateFile.kind = "doc"

Old(c) == Decode(pre[c].stateFile.doc)

\* Nothing of the container exists on disk.
NothingOnDisk == ~dir /\ stateFile = Absent /\ tmpFile = Absent /\ ~marker

Rank(status) == CASE status = Created -> 1 [] status = Running -> 2 [] status = Stopped -> 3

\* C1: after a successful create and before any start (kill, delete or run) is
\* issued, the persisted record has status created and the positive pid of the
\* init process that create spawned, state reports exactly that, and the init
\* process is alive and has not become the target program.
C1_CreatedBeforeStart ==
    hist.created # 0 =>
        /\ HasRecord
        /\ Rec.Status = Created
        /\ Rec.Pid = hist.created
        /\ Rec.Pid > 0
        /\ proc[hist.created].phase \in {"decode", "poll"}
        /\ \A c \in Ctl : Returned(c, "state") =>
              /\ ctl[c].ret = 0
              /\ ctl[c].out = <<[id |-> TheId, pid |-> hist.created,
                                 status |-> Created, bundle |-> Rec.Bundle]>>

C1_Witness ==
    /\ hist.created # 0
    /\ Rec.Bundle = "ok"
    /\ proc[hist.created].phase = "poll"
    /\ \E c \in Ctl : Returned(c, "state") /\ ctl[c].out # <<>>

\* C2 (as claimed): the persisted status only moves forward along
\* created -> running -> stopped; once stopped, no operation changes it.
C2_StatusMonotonic ==
    [][HasRecord /\ HasRecord' => Rank(Rec'.Status) >= Rank(Rec.Status)]_vars

\* C3: the pid in the record is the pid of the process create spawned, every
\* later version of the record carries the same pid, and the target program
\* runs in the process that was the init process.
C3_PidStable ==
    [][/\ HasRecord /\ HasRecord' => Rec'.Pid = Rec.Pid
       /\ ~HasRecord /\ HasRecord' =>
             \E c \in Ctl : /\ At(c, "c_write")
                            /\ ctl[c].child > 0
                            /\ proc[ctl[c].child].phase = "decode"
                            /\ Rec'.Pid = ctl[c].child
       /\ \A p \in Pids : proc'[p].phase = "target" =>
             /\ proc[p].phase \in {"exec", "target"}
             /\ proc'[p].recorded = p]_vars

\* A record of a second pid, after start and a self-heal, whose process ran
\* the target program.
C3_Witness ==
    /\ HasRecord
    /\ Rec.Pid = 2
    /\ Rec.Status = Stopped
    /\ Rec.StartedAt # NilPtr
    /\ proc[Rec.Pid].phase = "gone"
    /\ proc[1].phase = "target"

\* C4 (as claimed): the init process becomes the target program only after the
\* start invocation has returned (here for the start command, not for run).
C4_OnlyAfterStartReturned ==
    (\A c \in Ctl : ctl[c].cmd # "run") =>
        \A p \in Pids : proc[p].phase = "target" => proc[p].returned

\* C4 (amended): the init process leaves its wait, and becomes the target
\* program, only after a start has written the start marker.
C4_OnlyAfterMarker ==
    \A p \in Pids : proc[p].phase \in {"load", "exec", "target"} => proc[p].started

C4_Witness ==
    \E p \in Pids : /\ proc[p].phase = "target"
                    /\ proc[p].started
                    /\ ~proc[p].returned
                    /\ \E c \in Ctl : ctl[c].cmd = "start" /\ At(c, "sv_write")

\* C5: a create issued when the record exists fails with "already exists",
\* spawns no process and leaves the record as it was.
C5_SecondCreateFails ==
    \A c \in Ctl : ctl[c].cmd = "create" /\ Found(c) =>
        /\ ctl[c].child = 0
        /\ stateFile = pre[c].stateFile
        /\ At(c, "done") => ctl[c].ret = 1 /\ ctl[c].err = "exists"

C5_Witness ==
    \E c \in Ctl : /\ Returned(c, "create")
                   /\ Found(c)
                   /\ ctl[c].ret = 1
                   /\ Old(c).Status = Running

\* C6: after run has reaped the process, the record is stopped, has an exit
\* timestamp and has the exit status of the process as its exitCode.
C6_RunRecordsExit ==
    \A c \in Ctl : Returned(c, "run") /\ ctl[c].reaped # 0 =>
        /\ HasRecord
        /\ Rec.Pid = ctl[c].reaped
        /\ Rec.Status = Stopped
        /\ Rec.ExitedAt # NilPtr
        /\ proc[ctl[c].reaped].ws.exited
        /\ Rec.ExitCode = Ptr(proc[ctl[c].reaped].ws.code)

C6_Witness ==
    \E c \in Ctl : /\ Returned(c, "run")
                   /\ ctl[c].reaped # 0
                   /\ ctl[c].bundle = "ok"
                   /\ Rec.ExitCode = Ptr(0)

\* C7 (as claimed): the exit code of the run command is the exit status of the
\* managed process.
C7_RunExitCode ==
    \A c \in Ctl : Returned(c, "run") /\ ctl[c].reaped # 0 /\ ctl[c].bundle = "ok" =>
        ctl[c].ret = proc[ctl[c].reaped].ws.code

\* C8: state on a running record whose process is not alive persists it as
\* stopped with an exit timestamp (nothing else changed) and reports stopped;
\* state on a stopped record leaves the persisted record as it is.
C8_SelfHealIdempotent ==
    \A c \in Ctl : Returned(c, "state") /\ Found(c) =>
        /\ Old(c).Status = Running /\ ~pre[c].alive =>
              /\ HasRecord
              /\ Rec.ExitedAt # NilPtr
              /\ Rec = [Old(c) EXCEPT !.Status = Stopped, !.ExitedAt = Rec.ExitedAt]
              /\ ctl[c].ret = 0
              /\ ctl[c].out = <<StateOutput(Rec)>>
        /\ Old(c).Status = Stopped =>
              /\ stateFile = pre[c].stateFile
              /\ ctl[c].ret = 0
              /\ ctl[c].out = <<StateOutput(Rec)>>

\* A second state on a record that an earlier state healed (stopped, no exit code).
C8_Witness ==
    \E c \in Ctl : /\ Returned(c, "state")
                   /\ Found(c)
                   /\ Old(c).Status = Stopped
                   /\ Old(c).ExitCode = NilPtr
                   /\ Old(c).ExitedAt # NilPtr
                   /\ clock < MaxClock

\* C9: start on a record that is already running returns success and changes
\* neither the record nor the start marker.
C9_StartIdempotent ==
    \A c \in Ctl : ctl[c].cmd = "start" /\ Found(c) /\ Old(c).Status = Running =>
        /\ stateFile = pre[c].stateFile
        /\ marker = pre[c].marker
        /\ tmpFile = Absent
        /\ At(c, "done") => ctl[c].ret = 0

C9_Witness ==
    \E c \in Ctl : /\ Returned(c, "start")
                   /\ Found(c)
                   /\ Old(c).Status = Running
                   /\ marker
                   /\ clock < MaxClock

\* C10: for an identifier without a record, delete and kill succeed, start and
\* state fail, and none of them creates a directory, a record or a marker.
C10_NoRecord ==
    \A c \in Ctl :
        /\ ctl[c].cmd \in {"delete", "kill", "start", "state"}
        /\ pre[c].stateFile = Absent
        /\ ~pre[c].dir
        => /\ NothingOnDisk
           /\ At(c, "done") =>
                 IF ctl[c].cmd \in {"delete", "kill"}
                 THEN ctl[c].ret = 0
                 ELSE ctl[c].ret = 1 /\ ctl[c].err = "notexist"

\* A delete of an identifier whose record an earlier delete removed.
C10_Witness ==
    \E c \in Ctl : /\ Returned(c, "delete")
                   /\ pre[c].stateFile = Absent
                   /\ ctl[c].ret = 0
                   /\ NothingOnDisk
                   /\ \E p \in Pids : proc[p].phase # "none"

\* An invocation that is inside state.Create, state.Save or state.Delete.
InCreate(c) == ctl[c].pc \in CreateLabels

InSave(c) == ctl[c].pc \in SaveLabels

InDelete(c) == ctl[c].pc \in DeleteLabels

\* C11 (as claimed): a load of the identifier made while a create writes the
\* initial record finds no record or the complete document: no start, state,
\* kill or delete fails to parse what it read.
C11_LoadDuringCreate ==
    \A d \in Ctl : ctl[d].cmd \in {"start", "state", "kill", "delete"} =>
        ctl[d].err # "unmarshal"

\* C12: while one invocation is inside state.Save on an existing record and no
\* other invocation has written since it entered Save, state.json holds at
\* every moment a complete document, the previous one until Save's rename and
\* Save's one from then on: a load made at any moment returns one of the two.
C12_SaveAtomic ==
    [][\A c \in Ctl :
          /\ InSave(c)
          /\ ctl[c].solo
          /\ HasRecord
          => /\ Load'.err = ""
             /\ \/ Load'.st = Load.st
                \/ At(c, "sv_rename") /\ Load'.st = ctl[c].st]_vars

\* start is about to rename its document over the record while a state
\* invocation is about to load it.
C12_Witness ==
    \E c, d \in Ctl :
        /\ c # d
        /\ ctl[c].cmd = "start"
        /\ At(c, "sv_rename")
        /\ ctl[c].solo
        /\ HasRecord
        /\ tmpFile.kind = "doc"
        /\ Decode(tmpFile.doc).Status = Running
        /\ Rec.Status = Created
        /\ At(d, "st_load")

CreateFailedAfterSpawn(c) ==
    /\ At(c, "done")
    /\ ctl[c].cmd \in {"create", "run"}
    /\ ctl[c].child # 0
    /\ ctl[c].err \in {"exists", "enoent", "pidfile", "epipe"}

\* An init process that will not run: it has ended, or it waits for the
\* Process message on a pipe that carries none and that is closed once the
\* invocation has exited, so that its Decode fails and it exits.
Doomed(p) ==
    \/ proc[p].phase \in {"zombie", "gone"}
    \/ /\ proc[p].phase = "decode"
       /\ proc[p].wire = NoProc.wire
       /\ IF proc[p].parent = 0 THEN proc[p].pipe = "eof" ELSE proc[p].pipe = "open"

\* C14: when create returns an error after it spawned the init process, that
\* process has been killed or is left to end on the closed pipe: it never gets
\* the Process message, never waits for start and never runs the target.
C14_NoOrphanedChild ==
    /\ \A c \in Ctl : CreateFailedAfterSpawn(c) => Doomed(ctl[c].child)
    /\ \A p \in Pids : proc[p].abandoned => Doomed(p)

\* create has failed on its pid file and exited; its child is still there,
\* reading the closed pipe.
C14_Witness ==
    \E p \in Pids : /\ proc[p].abandoned
                    /\ proc[p].phase = "decode"
                    /\ proc[p].pipe = "eof"
                    /\ HasRecord
                    /\ Rec.Pid = p

\* The pids in use.
Spawned == {p \in Pids : proc[p].phase # "none"}

\* C15: create (and run's create) of a bundle whose config.json cannot be
\* loaded, for an identifier without a record, returns the loader's error;
\* no step taken while it runs spawns a process, changes the directory or
\* the record, or writes the pid file.
C15_SpecErrorFailsFast ==
    [][\A c \in Ctl :
          /\ ctl[c].cmd \in {"create", "run"}
          /\ ctl[c].bundle = "bad"
          /\ pre[c].stateFile = Absent
          => /\ Spawned' = Spawned
             /\ dir' = dir /\ stateFile' = stateFile /\ tmpFile' = tmpFile
             /\ pidFile' = pidFile
             /\ ctl[c].child = 0
             /\ At(c, "done") => ctl[c].ret = 1 /\ ctl[c].err = "spec"]_vars

C15_Witness ==
    \E c \in Ctl : /\ Returned(c, "create")
                   /\ ctl[c].bundle = "bad"
                   /\ ctl[c].pidFile = "pidfile"
                   /\ ctl[c].err = "spec"
                   /\ NothingOnDisk
                   /\ pidFile = 0
                   /\ Spawned = {}

\* C16 (as claimed): create of a bundle whose process has no arguments fails
\* with a spec error before a process is spawned or a record is written, and
\* no init process reaches the exec step with an empty argument vector.
C16_EmptyArgsRejected ==
    /\ \A c \in Ctl :
          /\ ctl[c].cmd \in {"create", "run"}
          /\ ctl[c].bundle = "noargs"
          /\ pre[c].stateFile = Absent
          => /\ ctl[c].child = 0
             /\ stateFile = Absent
             /\ At(c, "done") => ctl[c].ret = 1 /\ ctl[c].err = "spec"
    /\ \A p \in Pids : proc[p].phase = "exec" => proc[p].p.Args # <<>>

\* The decimal numeral of n, and the strings that denote n in decimal.
DigitChar(d) ==
    CASE d = 0 -> "0" [] d = 1 -> "1" [] d = 2 -> "2" [] d = 3 -> "3" [] d = 4 -> "4"
      [] d = 5 -> "5" [] d = 6 -> "6" [] d = 7 -> "7" [] d = 8 -> "8" [] d = 9 -> "9"

RECURSIVE Numeral(_)
Numeral(n) == IF n < 10 THEN <<DigitChar(n)>> ELSE Append(Numeral(n \div 10), DigitChar(n % 10))

Denotes(s, n) ==
    \E k \in 0..Len(s) : s = [i \in 1..k |-> "0"] \o Numeral(n)

IsDecimal(s) == s # <<>> /\ \A k \in 1..Len(s) : s[k] \in Digits

\* A symbolic name: it starts with a letter.
IsName(s) == s # <<>> /\ s[1] \notin Digits \cup {"-", "+"}

\* The signals the claim allows kill to deliver for a signal argument (every
\* signal for an argument of none of the kinds the claim names).
ClaimedSignals(arg) ==
    IF arg = <<>> THEN {SIGTERM}
    ELSE IF arg = Str_SIGTERM THEN {SIGTERM}
    ELSE IF arg = Str_SIGKILL THEN {SIGKILL}
    ELSE IF arg = Str_SIGINT THEN {SIGINT}
    ELSE IF arg = Str_SIGHUP THEN {SIGHUP}
    ELSE IF IsDecimal(arg) THEN {n \in 0..(10 ^ Len(arg)) : Denotes(arg, n)}
    ELSE IF HasPrefix(arg, <<"-">>) /\ IsDecimal(Tail(arg))
    THEN {n \in 0..(10 ^ Len(arg)) : Denotes(Tail(arg), n)}
    ELSE IF IsName(arg) THEN {SIGTERM}
    ELSE Int

C18_KillResult ==
    [][\A c \in Ctl :
          /\ (At(c, "k_load") /\ HasRecord /\ ctl'[c] # ctl[c]) =>
                IF Rec.Pid <= 0
                THEN ctl'[c].pc = "done" /\ ctl'[c].ret = 1
                ELSE /\ ctl'[c].pc = "k_kill"
                     /\ ctl'[c].st.Pid = Rec.Pid
                     /\ ctl'[c].sig \in ClaimedSignals(ctl[c].signal)
          /\ (At(c, "k_kill") /\ ctl'[c] # ctl[c]) =>
                LET pid == ctl[c].st.Pid
                    rejected == ~ProcExists(pid) \/ ctl[c].sig \notin 0..NSIG
                IN  /\ ctl'[c].pc = "done"
                    /\ ctl'[c].ret = IF rejected THEN 1 ELSE 0
                    /\ rejected => proc' = proc
                    /\ (~rejected /\ ctl[c].sig \in {SIGTERM, SIGKILL}
                           /\ proc[pid].phase \in LivePhases) =>
                          /\ proc'[pid].phase = "zombie"
                          /\ proc'[pid].ws = [exited |-> FALSE, code |-> ctl[c].sig]]_vars

\* kill without a signal argument has ended the init process of a record that
\* is still created, after an earlier container of the identifier was deleted.
C18_Witness ==
    \E c \in Ctl : /\ Returned(c, "kill")
                   /\ Found(c)
                   /\ Old(c).Status = Created
                   /\ Old(c).Pid = 2
                   /\ ctl[c].signal = <<>>
                   /\ ctl[c].ret = 0
                   /\ proc[Old(c).Pid].phase = "zombie"
                   /\ proc[Old(c).Pid].ws = [exited |-> FALSE, code |-> SIGTERM]

\* C19: delete on an existing, loadable record returns (when the bound of the
\* clock leaves room for its time.Now()): on a running record with a live
\* process it sends SIGKILL and then polls the process at most DeletePolls
\* times, and when it returns success the directory and the record are gone,
\* whether or not the process was seen to end.
C19_DeleteTerminates ==
    /\ [](\A c \in Ctl : ctl[c].cmd = "delete" =>
             /\ ctl[c].i < DeletePolls
             /\ At(c, "d_poll") => proc[ctl[c].st.Pid].phase \notin LivePhases
             /\ (At(c, "done") /\ Found(c) /\ ctl[c].ret = 0) =>
                   ~dir /\ stateFile = Absent)
    /\ \A c \in Ctl :
          (ctl[c].cmd = "delete" /\ Found(c) /\ clock < MaxClock)
             ~> (At(c, "done") /\ ctl[c].ret = 0)

\* delete has given up on a killed process that was never seen gone, and has
\* removed the directory all the same.
C19_Witness ==
    \E c \in Ctl : /\ Returned(c, "delete")
                   /\ Found(c)
                   /\ Old(c).Status = Running
                   /\ ctl[c].ret = 0
                   /\ ctl[c].st.Status = Running
                   /\ proc[Old(c).Pid].phase = "zombie"
                   /\ proc[Old(c).Pid].ws = [exited |-> FALSE, code |-> SIGKILL]
                   /\ ~dir

\* "1", or "true" or "yes" in any letter case.
TruthyValues ==
    {<<"1">>}
        \cup {<<a, b, c, d>> : a \in {"t", "T"}, b \in {"r", "R"},
                               c \in {"u", "U"}, d \in {"e", "E"}}
        \cup {<<a, b, c>> : a \in {"y", "Y"}, b \in {"e", "E"}, c \in {"s", "S"}}

\* RUNPROC_HOST in the supervisor's own environment is truthy.
RuntimeSignal == sys.RUNPROC_HOST \in TruthyValues

\* RUNPROC_HOST in the target's declared environment is truthy.
ProcessSignal ==
    \E k \in 1..Len(sys.ProcessEnv) :
       \E v \in TruthyValues : sys.ProcessEnv[k] = HostPrefix \o v

\* The runproc.host annotation is truthy.
AnnotationSignal ==
    HostKey \in DOMAIN sys.Annotations /\ sys.Annotations[HostKey] \in TruthyValues

\* The spec declares a non-empty root path.
RootDeclared == sys.Root # NilPtr /\ sys.Root[1].Path # ""

\* An init process that is past the root change step.
PastRootChange(pid) == proc[pid].phase \in {"exec", "target"}

\* C20: the supervisor changes its root if and only if none of the three
\* host-mode signals is truthy, the spec declares a non-empty root path and the
\* supervisor is the superuser; one truthy signal is enough to skip the change,
\* whatever the other signals say.
C20_ChrootPolicy ==
    \A pid \in Pids :
       PastRootChange(pid) =>
          (proc[pid].chroot <=>
              /\ ~RuntimeSignal
              /\ ~ProcessSignal
              /\ ~AnnotationSignal
              /\ RootDeclared
              /\ sys.Euid = 0)

\* The superuser, a root path, RUNPROC_HOST=yEs in the supervisor's environment
\* and an annotation that says no: the root change was skipped.
C20_Witness ==
    \E pid \in Pids :
       /\ proc[pid].phase = "exec"
       /\ ~proc[pid].chroot
       /\ sys.RUNPROC_HOST = <<"y", "E", "s">>
       /\ HostKey \in DOMAIN sys.Annotations
       /\ sys.Annotations[HostKey] = <<"n", "o">>
       /\ sys.ProcessEnv = <<>>
       /\ RootDeclared
       /\ sys.Euid = 0

\* The phases of cmdInit: the init process before it becomes the target.
InitPhases == {"decode", "poll", "load", "exec"}

\* A step in which init process pid moves: it leaves an init phase for the
\* next one, for the target program, or ends by its own exit.
InitStep(pid) ==
    /\ proc[pid].phase \in InitPhases
    /\ proc'[pid].phase # proc[pid].phase
    /\ proc'[pid].phase = "zombie" => proc'[pid].ws.exited

\* A step of a controller invocation.
ControllerStep == \E c \in Ctl : ctl'[c] # ctl[c]

\* C21: no step of an init process (decode, poll, load, exec, its own exit)
\* changes the record directory, state.json, state.json.tmp or the start
\* marker; a step that changes one of them is a step of a controller
\* invocation in which no process changes phase.
C21_SupervisorReadOnly ==
    [][/\ \A pid \in Pids : InitStep(pid) => fsVars' = fsVars
       /\ fsVars' # fsVars =>
             /\ ControllerStep
             /\ \A pid \in Pids : proc'[pid].phase = proc[pid].phase]_vars

\* An init process went through all its steps while start was still saving:
\* the record is the one create wrote.
C21_Witness ==
    \E pid \in Pids :
       /\ proc[pid].phase = "target"
       /\ HasRecord
       /\ Rec.Pid = pid
       /\ Rec.Status = Created
       /\ marker
       /\ tmpFile.kind = "doc"

\* Process pid enters phase ph in this step.
Enters(pid, ph) == proc[pid].phase # ph /\ proc'[pid].phase = ph

\* Process pid is ended by a signal in this step.
Signalled(pid) == Enters(pid, "zombie") /\ ~proc'[pid].ws.exited

Takes(c, label) == At(c, label) /\ ctl'[c] # ctl[c]

StartedFor(pid) ==
    /\ HasRecord
    /\ Rec.Pid = pid
    /\ proc[pid].returned
    /\ proc[pid].phase \in InitPhases

\* A kill or a delete has been issued.
Disturbed == \E c \in Ctl : ctl[c].cmd \in {"kill", "delete"}

\* C25 (as claimed): once start has returned success for a record whose init
\* process is there, that process becomes the target program, unless a kill
\* or a delete is issued first.
C25_StartLeadsToExec ==
    \A pid \in Pids :
       StartedFor(pid) ~> (proc[pid].phase = "target" \/ Disturbed)

\* The Process message is written to the pipe of init process pid in this step.
MessageSent(pid) == proc[pid].pipe = "open" /\ proc'[pid].pipe = "msg"

\* C26: when create writes the Process message to the pipe, state.json
\* already holds the created record with the child's pid; an init process
\* starts polling for the marker only after it has got that message, and so
\* polls and loads only after its record was persisted.
C26_RecordBeforeMessage ==
    [][\A pid \in Pids :
          /\ MessageSent(pid) =>
                /\ HasRecord
                /\ Rec.Pid = pid
                /\ Rec.Status = Created
                /\ proc[pid].recorded = pid
          /\ Enters(pid, "poll") =>
                /\ proc[pid].phase = "decode"
                /\ proc[pid].pipe = "msg"
                /\ proc[pid].recorded = pid
          /\ Enters(pid, "load") => proc[pid].recorded = pid]_vars

\* create has returned, its child has decoded the message and polls; the
\* record of that child is there and no start was issued.
C26_Witness ==
    \E pid \in Pids :
       /\ proc[pid].phase = "poll"
       /\ proc[pid].p.Args # <<>>
       /\ proc[pid].recorded = pid
       /\ HasRecord
       /\ Rec.Pid = pid
       /\ ~marker
       /\ \A c \in Ctl : At(c, "idle")

\* Invocation c, of command cmd, takes a step.
StepOf(c, cmd) == ctl[c].cmd = cmd /\ ctl'[c] # ctl[c]

\* C27: no step of a kill invocation changes the directory, state.json, the
\* temp file or the marker, so that for every result of kill the record and
\* the marker are what they were when kill was issued; and kill never waits:
\* each of its two steps can be taken at once, whatever the process does.
C27_KillLeavesRecord ==
    [][\A c \in Ctl :
          /\ StepOf(c, "kill") => fsVars' = fsVars
          /\ ctl[c].cmd = "kill" =>
                /\ stateFile = pre[c].stateFile
                /\ marker = pre[c].marker
                /\ dir = pre[c].dir
          /\ At(c, "k_load") => ENABLED cmdKill_Load(c)
          /\ At(c, "k_kill") => ENABLED cmdKill_Kill(c)]_vars

\* kill has returned success for a running record: the record is still
\* running, without exit timestamp, and the process it ended is not reaped.
C27_Witness ==
    \E c \in Ctl :
       /\ Returned(c, "kill")
       /\ ctl[c].ret = 0
       /\ Found(c)
       /\ Old(c).Status = Running
       /\ Rec = Old(c)
       /\ Rec.ExitedAt = NilPtr
       /\ marker
       /\ proc[Rec.Pid].phase = "zombie"
       /\ ~proc[Rec.Pid].ws.exited

\* C28: a state invocation that found a record changes state.json only if
\* that record was running and its pid is not alive; a created or stopped
\* record, and a running one whose process is alive, is left as it was, the
\* process of a created record being dead or not; and state reports the
\* record that state.json holds when it returns.
C28_StateRewritesOnlyDeadRunning ==
    \A c \in Ctl : ctl[c].cmd = "state" /\ Found(c) =>
        /\ Old(c).Status \in {Created, Stopped} => stateFile = pre[c].stateFile
        /\ Old(c).Status = Running /\ pidAlive(Old(c).Pid) =>
              stateFile = pre[c].stateFile
        /\ stateFile # pre[c].stateFile =>
              /\ Old(c).Status = Running
              /\ ~pidAlive(Old(c).Pid)
              /\ Rec = MarkStopped(Old(c), Rec.ExitedAt[1])
        /\ At(c, "done") =>
              /\ ctl[c].ret = 0
              /\ HasRecord
              /\ ctl[c].out = <<StateOutput(Rec)>>

\* state has returned on a created record whose process was killed and
\* reaped: it reports created and the record is as it was.
C28_Witness ==
    \E c \in Ctl :
       /\ Returned(c, "state")
       /\ Found(c)
       /\ Old(c).Status = Created
       /\ ~pidAlive(Old(c).Pid)
       /\ ctl[c].out = <<StateOutput(Old(c))>>
       /\ stateFile = pre[c].stateFile

\* In this step state.json gets a record with an exit code it did not hold.
ExitCodeWritten ==
    /\ HasRecord'
    /\ Rec'.ExitCode # NilPtr
    /\ ~HasRecord \/ Rec.ExitCode # Rec'.ExitCode

\* Invocation c is the run that spawned process pid.
RunOf(c, pid) == ctl[c].cmd = "run" /\ ctl[c].child = pid

\* C29: the exit of the managed process, and its reaping by the system,
\* leave state.json as it is; a running record changes only in the Save or
\* the RemoveAll of a state or delete invocation (a Save to stopped after
\* their liveness check found the pid dead) or of the run that spawned the
\* process; and an exit code is written only by the run that spawned the
\* process, never for a container made by separate create and start.
C29_NoReapWithoutRun ==
    [][/\ \A pid \in Pids :
             proc[pid].phase \in {"target", "zombie"}
                /\ proc'[pid].phase # proc[pid].phase
                /\ ctl' = ctl
             => stateFile' = stateFile
       /\ HasRecord /\ Rec.Status = Running /\ stateFile' # stateFile =>
             \E c \in Ctl :
                /\ Takes(c, "sv_rename") \/ Takes(c, "d_delete")
                /\ ctl[c].cmd \in {"state", "delete"} \/ RunOf(c, Rec.Pid)
                /\ ctl[c].cmd \in {"state", "delete"} /\ HasRecord' =>
                      /\ Rec'.Status = Stopped
                      /\ Rec'.ExitCode = Rec.ExitCode
                      /\ ~pidAlive(Rec.Pid)
       /\ ExitCodeWritten =>
             \E c \in Ctl : RunOf(c, Rec'.Pid) /\ Takes(c, "sv_rename")]_vars

\* create and start were issued on their own, the target program has exited
\* and was reaped by the system, no invocation runs: the record still says
\* running and has no exit code.
C29_Witness ==
    /\ HasRecord
    /\ Rec.Status = Running
    /\ Rec.ExitCode = NilPtr
    /\ Rec.ExitedAt = NilPtr
    /\ proc[Rec.Pid].phase = "gone"
    /\ proc[Rec.Pid].ws = NoWait
    /\ \A c \in Ctl : At(c, "idle")

\* C30 (as claimed): while two or more invocations are inside state.Save on
\* an existing record and none is inside Create or Delete, no step of a Save
\* leaves state.json absent, empty or partly written: a load made after any
\* such step returns a complete document.
C30_ConcurrentSaves ==
    [][\A c, d \in Ctl :
          /\ c # d
          /\ InSave(c) /\ InSave(d)
          /\ \A e \in Ctl : ~InCreate(e) /\ ~InDelete(e)
          /\ HasRecord
          /\ ctl'[c] # ctl[c]
          => Load'.err = ""]_vars

\* C31 (as claimed): once state.json holds a record with an exit code, every
\* document that replaces it carries the same exit code, whichever invocation
\* saves it.
C31_ExitCodeKept ==
    [][HasRecord /\ Rec.ExitCode # NilPtr /\ HasRecord'
          => Rec'.ExitCode = Rec.ExitCode]_vars

\* C32 (as claimed): in every record state.json holds, status running implies
\* startedAt is present, status stopped implies exitedAt is present, and
\* exitCode is present only when the status is stopped.
C32_FieldsFollowStatus ==
    HasRecord =>
        /\ Rec.Status = Running => Rec.StartedAt # NilPtr
        /\ Rec.Status = Stopped => Rec.ExitedAt # NilPtr
        /\ Rec.ExitCode # NilPtr => Rec.Status = Stopped

\* The init processes past the handshake (polling for the start marker,
\* loading the spec or about to exec) and the executing targets.
Associated == {p \in Pids : proc[p].phase \in {"poll", "load", "exec", "target"}}

\* C33 (as claimed): at most one blocked supervisor or executing target
\* belongs to the identifier at any time, and when a delete has returned no
\* supervisor is left polling for the start marker.
C33_OneLiveProcess ==
    /\ Cardinality(Associated) <= 1
    /\ \A c \in Ctl : Returned(c, "delete") /\ ctl[c].ret = 0 =>
          \A p \in Pids : proc[p].phase # "poll"

\* C34 (as claimed): when a create that found no record returns an error,
\* state.json does not exist, so the next create is not rejected.
C34_FailedCreateLeavesNothing ==
    \A c \in Ctl :
        /\ Returned(c, "create")
        /\ ctl[c].ret # 0
        /\ pre[c].stateFile = Absent
        => stateFile = Absent

====
